---- MODULE Spec2Model ----
(***************************************************************************)
(* Model of TensorboardManager (src/src/manager.ts): the registry of       *)
(* running tensorboards, its polling, start/shutdown/shutdownAll and the   *)
(* change signal.  Every promise callback of the source is one action      *)
(* (JavaScript runs each callback to completion); the backend calls of     *)
(* ./tensorboard are in flight between the action that issues them and the *)
(* action that settles them, and they settle in any order.                 *)
(***************************************************************************)
EXTENDS Integers, Sequences, FiniteSets, TLC

\* ---------------------------------------------------------------- bounds
MaxOps == 2
MaxInFlight == 2
MaxDirLen == 4
MaxTabOps == 3
MaxTabCalls == 2

\* ---------------------------------------------------------------- values
Names == {"tb1", "tb2"}
Logdirs == {"/a", "/b"}

\* Tensorboard.IModel, reduced to its identity key and one payload field.
\* tb1 is served from either logdir, so two lists with the same names can
\* differ in content; tb2 is always served from "/b".
Models == {m \in [name : Names, logdir : Logdirs] : m.name = "tb2" => m.logdir = "/b"}

\* The lists the backend reports: at most one entry per name.
BackendLists ==
  {<<>>} \cup {<<m>> : m \in Models}
         \cup {<<p[1], p[2]>> : p \in {q \in Models \X Models : q[1].name # q[2].name}}

\* ---------------------------------------------------------------- state
VARIABLES
  models,        \* _models
  tensorboards,  \* _tensorboards: handles [id, name] held by the manager
  disposed,      \* ids of the handles on which dispose() was called
  signalled,     \* ids of the handles that have signalled terminated
  isReady,       \* _isReady
  isDisposed,    \* _isDisposed
  timerOn,       \* _refreshTimer is armed
  connected,     \* the subscriber of runningChanged is still connected
  polls,         \* listRunning calls in flight, in the order of issue
  shutCalls,     \* Tensorboard.shutdown calls in flight, in the order of issue
  startCalls,    \* Tensorboard.startNew calls in flight (the number of the call)
  allCalls,      \* per shutdownAll call: the state of its returned promise
  ops,           \* number of operations begun so far
  emitted,       \* the emissions of runningChanged made by the last step
  last,          \* what the last step was and what its caller was told
  statusConfig,  \* _statusConfig and the state of the fetch that sets it
  formatted,     \* the last formatDir call: its argument and its result
  tab            \* the state of the TensorboardTabReact component and its pending calls

\* The registry proper, and the part formatDir reads and reports.
mvars == <<models, tensorboards, disposed, signalled, isReady, isDisposed, timerOn, connected,
           polls, shutCalls, startCalls, allCalls, ops, emitted, last>>

fvars == <<statusConfig, formatted>>

vars == <<mvars, fvars, tab>>

\* ---------------------------------------------------------------- helpers
NamesOf(ms) == {ms[i].name : i \in DOMAIN ms}

\* ArrayExt.findFirstIndex(ms, value => value.name === name); 0 stands for -1.
findFirstIndex(ms, name) ==
  IF \E i \in DOMAIN ms : ms[i].name = name
    THEN CHOOSE i \in DOMAIN ms :
           /\ ms[i].name = name
           /\ \A j \in DOMAIN ms : ms[j].name = name => i <= j
    ELSE 0

\* Array.prototype.splice(index, 1)
splice(s, index) == [i \in 1..(Len(s) - 1) |-> IF i < index THEN s[i] ELSE s[i + 1]]

\* JSONExt.deepEqual on two arrays of models: same length, equal fields in order.
deepEqual(a, b) ==
  /\ Len(a) = Len(b)
  /\ \A i \in DOMAIN a : a[i].name = b[i].name /\ a[i].logdir = b[i].logdir

\* One emission of runningChanged: the payload, and what a synchronous
\* subscriber reads at that point of the handler.
Emission(payload, ms, hs, calls) ==
  [payload |-> payload, models |-> ms, handles |-> hs, calls |-> calls,
   delivered |-> connected]

\* What the last step was: the callback, whose call it belongs to, the state of
\* the promise that caller holds, and the handles the step disposed.
Step(op, origin, result, dropped) ==
  [op |-> op, origin |-> origin, result |-> result, dropped |-> dropped]

\* The backend calls in flight; an operation issues a further one only below the bound.
InFlight == Len(polls) + Cardinality(startCalls) + Len(shutCalls)

\* An operation is begun: a call of the public interface, a timer tick or a
\* termination signal.  Their number over a run is bounded.
Begin == ops < MaxOps /\ ops' = ops + 1

IdsOf(hs) == {h.id : h \in hs}

IdleCall == [active |-> FALSE, left |-> 0, failed |-> FALSE]

\* The remote calls shutdownAll issues: one per captured model, in order.
CallsFor(captured, a) == [i \in 1..Len(captured) |-> [name |-> captured[i], all |-> a]]

\* models.map(model => model.name)
NameList(ms) == [i \in 1..Len(ms) |-> ms[i].name]

\* ---------------------------------------------------------------- Init
\* No tensorboard: the null of currentTensorBoard and of createdModelName.
NoName == "none"

\* A JavaScript number: NaN, or a value.
NaN == [nan |-> TRUE, value |-> 0]

Num(v) == [nan |-> FALSE, value |-> v]

\* manager.startNew: the request it hands to Tensorboard.startNew.
startNewRequest(refreshInterval) == [reload_interval |-> refreshInterval]

\* A call the component has made on the manager and whose promise is pending:
\* the function, the handler it belongs to, the tensorboard it is about, the
\* interval given to the manager and the request the manager sent on.
TabCall(fn, for, name, interval) ==
  [fn |-> fn, for |-> for, name |-> name, given |-> interval,
   request |-> startNewRequest(interval)]

\* The component after its mount effect, for a widget opened with
\* createdModelName: nothing shown yet, the first refresh in flight.
TabInit(createdModelName) ==
  [createdModelName |-> createdModelName,
   ready |-> FALSE, createPending |-> FALSE, reloadPending |-> FALSE,
   showNewRow |-> FALSE, showListStatus |-> FALSE,
   currentTensorBoard |-> NoName, currentTensorBoardRef |-> NoName,
   runningTensorBoards |-> <<>>, notActiveError |-> FALSE,
   closed |-> FALSE,
   calls |-> <<TabCall("refreshRunning", "refresh", NoName, Num(0))>>,
   ops |-> 0, last |-> "init"]

\* The state after the constructor: the first poll is in flight and the
\* timer is armed; a consumer has connected to runningChanged.
InitRegistry ==
  /\ models = <<>>
  /\ tensorboards = {}
  /\ disposed = {}
  /\ signalled = {}
  /\ isReady = FALSE
  /\ isDisposed = FALSE
  /\ timerOn = TRUE
  /\ connected = TRUE
  /\ polls = <<[origin |-> "ctor", captured |-> <<>>, all |-> 0]>>
  /\ shutCalls = <<>>
  /\ startCalls = {}
  /\ allCalls = [a \in 1..MaxOps |-> IdleCall]
  /\ ops = 0
  /\ emitted = <<>>
  /\ last = [op |-> "init", origin |-> "", result |-> "", dropped |-> {}]
  /\ statusConfig = [fetch |-> "pending", notebook_dir |-> <<>>]

\* No call of formatDir is followed.
Init ==
  /\ InitRegistry
  /\ formatted = [called |-> FALSE, dir |-> <<>>, result |-> <<>>]
  /\ tab = TabInit(NoName)

\* ---------------------------------------------------------------- polling
\* refreshRunning(): issues a listRunning call and returns its promise.
refreshRunning ==
  /\ Begin
  /\ InFlight < MaxInFlight
  /\ polls' = Append(polls, [origin |-> "api", captured |-> <<>>, all |-> 0])
  /\ emitted' = <<>>
  /\ last' = Step("refreshRunning", "api", "pending", {})
  /\ UNCHANGED <<fvars, tab, signalled, models, tensorboards, disposed, isReady, isDisposed, timerOn, connected,
                 shutCalls, startCalls, allCalls>>

\* The setInterval callback of the constructor; it polls unless the document is hidden.
TimerTick ==
  /\ Begin
  /\ timerOn
  /\ \E hidden \in BOOLEAN :
       IF hidden
         THEN /\ polls' = polls
              /\ last' = Step("timerSkip", "timer", "", {})
         ELSE /\ InFlight < MaxInFlight
              /\ polls' = Append(polls, [origin |-> "timer", captured |-> <<>>, all |-> 0])
              /\ last' = Step("timerPoll", "timer", "", {})
  /\ emitted' = <<>>
  /\ UNCHANGED <<fvars, tab, signalled, models, tensorboards, disposed, isReady, isDisposed, timerOn, connected,
                 shutCalls, startCalls, allCalls>>

\* Variant: every completed poll counts as a change.
refreshChanged_always(fetched) == TRUE

\* Variant: the lists are compared by their sets of names only.
refreshChanged_names(fetched) == NamesOf(fetched) # NamesOf(models)

\* The test of _refreshRunning: has the running list changed?
refreshChanged(fetched) == ~deepEqual(fetched, models)

\* Variant: the pass updates the list but leaves every handle in place.
refreshToRemove_none(fetched) == {}

\* Variant: the handles are tested against the previous list, not the fetched one.
refreshToRemove_old(fetched) == {t \in tensorboards : t.name \notin NamesOf(models)}

\* The handles _refreshRunning disposes and drops: those whose name is not fetched.
refreshToRemove(fetched) == {t \in tensorboards : t.name \notin NamesOf(fetched)}

\* Variant: the ready flag is set only inside the branch taken on a change.
refreshHandler_readyOnChange(fetched) ==
  IF refreshChanged(fetched)
    THEN /\ isReady' = TRUE
         /\ disposed' = disposed \cup IdsOf(refreshToRemove(fetched))
         /\ tensorboards' = tensorboards \ refreshToRemove(fetched)
         /\ models' = fetched
         /\ emitted' = <<Emission(fetched, fetched,
                                  tensorboards \ refreshToRemove(fetched), shutCalls)>>
    ELSE /\ UNCHANGED <<isReady, disposed, tensorboards, models>>
         /\ emitted' = <<>>

\* Variant: the event is emitted before _models is assigned.
refreshHandler_emitFirst(fetched) ==
  /\ isReady' = TRUE
  /\ IF refreshChanged(fetched)
       THEN /\ disposed' = disposed \cup IdsOf(refreshToRemove(fetched))
            /\ tensorboards' = tensorboards \ refreshToRemove(fetched)
            /\ models' = fetched
            /\ emitted' = <<Emission(fetched, models,
                                     tensorboards \ refreshToRemove(fetched), shutCalls)>>
       ELSE /\ UNCHANGED <<disposed, tensorboards, models>>
            /\ emitted' = <<>>

\* The fulfilment callback of _refreshRunning.
refreshHandler(fetched) ==
  /\ isReady' = TRUE
  /\ IF refreshChanged(fetched)
       THEN /\ disposed' = disposed \cup IdsOf(refreshToRemove(fetched))
            /\ tensorboards' = tensorboards \ refreshToRemove(fetched)
            /\ models' = fetched
            /\ emitted' = <<Emission(fetched, fetched,
                                     tensorboards \ refreshToRemove(fetched), shutCalls)>>
       ELSE /\ UNCHANGED <<disposed, tensorboards, models>>
            /\ emitted' = <<>>

\* A listRunning call is answered; for the poll of a shutdownAll the chained
\* callback then issues one remote shutdown per captured model.
RefreshOk(i, fetched) ==
  /\ i \in DOMAIN polls
  /\ refreshHandler(fetched)
  /\ polls' = splice(polls, i)
  /\ LET p == polls[i] IN
       IF p.origin = "shutdownAll"
         THEN /\ shutCalls' = shutCalls \o CallsFor(p.captured, p.all)
              /\ allCalls' = [allCalls EXCEPT ![p.all] =
                               IF Len(p.captured) = 0 THEN IdleCall
                               ELSE [active |-> TRUE, left |-> Len(p.captured), failed |-> FALSE]]
              /\ last' = Step("refreshOk", p.origin,
                              IF Len(p.captured) = 0 THEN "resolved" ELSE "pending",
                              disposed' \ disposed)
         ELSE /\ UNCHANGED <<shutCalls, allCalls>>
              /\ last' = Step("refreshOk", p.origin, "resolved", disposed' \ disposed)
  /\ UNCHANGED <<fvars, tab, signalled, isDisposed, timerOn, connected, startCalls, ops>>

\* Variant: a rejection callback treats the failure as an empty list and resolves.
RefreshFail_empty(i) ==
  /\ i \in DOMAIN polls
  /\ polls' = splice(polls, i)
  /\ models' = <<>>
  /\ LET p == polls[i] IN
       /\ allCalls' = IF p.origin = "shutdownAll"
                        THEN [allCalls EXCEPT ![p.all] = IdleCall] ELSE allCalls
       /\ last' = Step("refreshFail", p.origin, "resolved", {})
  /\ emitted' = <<>>
  /\ UNCHANGED <<fvars, tab, signalled, tensorboards, disposed, isReady, isDisposed, timerOn, connected,
                 shutCalls, startCalls, ops>>

\* A listRunning call fails: _refreshRunning has no rejection callback.
RefreshFail(i) ==
  /\ i \in DOMAIN polls
  /\ polls' = splice(polls, i)
  /\ LET p == polls[i] IN
       /\ allCalls' = IF p.origin = "shutdownAll"
                        THEN [allCalls EXCEPT ![p.all] = IdleCall] ELSE allCalls
       /\ last' = Step("refreshFail", p.origin, "rejected", {})
  /\ emitted' = <<>>
  /\ UNCHANGED <<fvars, tab, signalled, models, tensorboards, disposed, isReady, isDisposed, timerOn, connected,
                 shutCalls, startCalls, ops>>

\* ---------------------------------------------------------------- start
\* startNew(logdir, ...): issues the remote create and awaits it.
startNew ==
  /\ Begin
  /\ InFlight < MaxInFlight
  /\ startCalls' = startCalls \cup {ops + 1}
  /\ emitted' = <<>>
  /\ last' = Step("startNew", "start", "pending", {})
  /\ UNCHANGED <<fvars, tab, signalled, models, tensorboards, disposed, isReady, isDisposed, timerOn, connected,
                 polls, shutCalls, allCalls>>

\* Variant: _onStarted pushes the model without looking for its name.
onStartedAdds_always(m) == TRUE

\* Variant: the test of _onStarted is inverted.
onStartedAdds_inverted(m) == findFirstIndex(models, m.name) # 0

\* _onStarted: does the started tensorboard add an entry to _models?
onStartedAdds(m) == findFirstIndex(models, m.name) = 0

\* The remote create of call k succeeded with a handle for model m; _onStarted(tensorboard).
StartOk(k, m) ==
  /\ k \in startCalls
  /\ startCalls' = startCalls \ {k}
  /\ LET t == [id |-> k, name |-> m.name] IN
       /\ tensorboards' = tensorboards \cup {t}
       /\ IF onStartedAdds(m)
            THEN /\ models' = Append(models, m)
                 /\ emitted' = <<Emission(Append(models, m), Append(models, m),
                                          tensorboards \cup {t}, shutCalls)>>
            ELSE /\ models' = models
                 /\ emitted' = <<>>
  /\ last' = Step("startOk", "start", "resolved", {})
  /\ UNCHANGED <<fvars, tab, signalled, disposed, isReady, isDisposed, timerOn, connected, polls, shutCalls,
                 allCalls, ops>>

\* Variant: the failure of the remote create is caught and the call resolves.
StartFail_swallow(k) ==
  /\ k \in startCalls
  /\ startCalls' = startCalls \ {k}
  /\ emitted' = <<>>
  /\ last' = Step("startFail", "start", "resolved", {})
  /\ UNCHANGED <<fvars, tab, signalled, models, tensorboards, disposed, isReady, isDisposed, timerOn, connected,
                 polls, shutCalls, allCalls, ops>>

\* The remote create of call k failed: the await in startNew throws.
StartFail(k) ==
  /\ k \in startCalls
  /\ startCalls' = startCalls \ {k}
  /\ emitted' = <<>>
  /\ last' = Step("startFail", "start", "rejected", {})
  /\ UNCHANGED <<fvars, tab, signalled, models, tensorboards, disposed, isReady, isDisposed, timerOn, connected,
                 polls, shutCalls, allCalls, ops>>

\* A held handle signals terminated, once; _onTerminated(name).
Terminated(t) ==
  /\ Begin
  /\ t \in tensorboards
  /\ t.id \notin signalled
  /\ signalled' = signalled \cup {t.id}
  /\ LET index == findFirstIndex(models, t.name) IN
       IF index # 0
         THEN /\ models' = splice(models, index)
              /\ emitted' = <<Emission(splice(models, index), splice(models, index),
                                       tensorboards, shutCalls)>>
         ELSE /\ models' = models
              /\ emitted' = <<>>
  /\ last' = Step("terminated", "handle", "", {})
  /\ UNCHANGED <<fvars, tab, tensorboards, disposed, isReady, isDisposed, timerOn, connected,
                 polls, shutCalls, startCalls, allCalls>>

\* ---------------------------------------------------------------- shutdown
\* Variant: no optimistic removal; the entry stays until a poll drops it.
shutdown_late(name) ==
  /\ Begin
  /\ LET index == findFirstIndex(models, name) IN
       IF index = 0
         THEN /\ UNCHANGED <<shutCalls>>
              /\ last' = Step("shutdown", "shutdown", "resolved", {})
         ELSE /\ InFlight < MaxInFlight
              /\ shutCalls' = Append(shutCalls, [name |-> name, all |-> 0])
              /\ last' = Step("shutdown", "shutdown", "pending", {})
  /\ emitted' = <<>>
  /\ UNCHANGED <<fvars, tab, signalled, models, tensorboards, disposed, isReady, isDisposed, timerOn, connected,
                 polls, startCalls, allCalls>>

\* Variant: no early return; the remote call is issued for an absent name too.
shutdown_always(name) ==
  /\ Begin
  /\ InFlight < MaxInFlight
  /\ LET index == findFirstIndex(models, name) IN
       IF index = 0
         THEN /\ models' = models
              /\ emitted' = <<>>
         ELSE /\ models' = splice(models, index)
              /\ emitted' = <<Emission(splice(models, index), splice(models, index),
                                       tensorboards, shutCalls)>>
  /\ shutCalls' = Append(shutCalls, [name |-> name, all |-> 0])
  /\ last' = Step("shutdown", "shutdown", "pending", {})
  /\ UNCHANGED <<fvars, tab, signalled, tensorboards, disposed, isReady, isDisposed, timerOn, connected,
                 polls, startCalls, allCalls>>

\* shutdown(name), up to the return of the promise: the optimistic removal,
\* its emission, and then the remote call.
shutdown(name) ==
  /\ Begin
  /\ LET index == findFirstIndex(models, name) IN
       IF index = 0
         THEN /\ UNCHANGED <<models, shutCalls>>
              /\ emitted' = <<>>
              /\ last' = Step("shutdown", "shutdown", "resolved", {})
         ELSE /\ InFlight < MaxInFlight
              /\ models' = splice(models, index)
              /\ emitted' = <<Emission(splice(models, index), splice(models, index),
                                       tensorboards, shutCalls)>>
              /\ shutCalls' = Append(shutCalls, [name |-> name, all |-> 0])
              /\ last' = Step("shutdown", "shutdown", "pending", {})
  /\ UNCHANGED <<fvars, tab, signalled, tensorboards, disposed, isReady, isDisposed, timerOn, connected,
                 polls, startCalls, allCalls>>

\* The handles the fulfilment callback of a remote shutdown disposes and drops:
\* those of that name for shutdown(name), every handle for shutdownAll.
shutdownToRemove(c) ==
  IF c.all = 0 THEN {t \in tensorboards : t.name = c.name} ELSE tensorboards

\* Promise.all over the remote calls of one shutdownAll: one more call settled.
settleAll(a, ok) ==
  IF allCalls[a].left = 1
    THEN IdleCall
    ELSE [active |-> TRUE, left |-> allCalls[a].left - 1,
          failed |-> allCalls[a].failed \/ ~ok]

\* Variant: failures of the remote calls are swallowed.
resultAll_swallow(a, ok) == IF allCalls[a].left = 1 THEN "resolved" ELSE "pending"

\* What the caller's promise is after that settlement.
resultAll(a, ok) ==
  IF allCalls[a].failed \/ ~ok THEN "rejected"
  ELSE IF allCalls[a].left = 1 THEN "resolved" ELSE "pending"

\* A remote shutdown call succeeds.
ShutdownOk(i) ==
  /\ i \in DOMAIN shutCalls
  /\ shutCalls' = splice(shutCalls, i)
  /\ LET c == shutCalls[i] IN
       /\ disposed' = disposed \cup IdsOf(shutdownToRemove(c))
       /\ tensorboards' = tensorboards \ shutdownToRemove(c)
       /\ IF c.all = 0
            THEN /\ allCalls' = allCalls
                 /\ last' = Step("shutdownOk", "shutdown", "resolved", disposed' \ disposed)
            ELSE /\ allCalls' = [allCalls EXCEPT ![c.all] = settleAll(c.all, TRUE)]
                 /\ last' = Step("shutdownOk", "shutdownAll", resultAll(c.all, TRUE),
                                 disposed' \ disposed)
  /\ emitted' = <<>>
  /\ UNCHANGED <<fvars, tab, signalled, models, isReady, isDisposed, timerOn, connected, polls, startCalls, ops>>

\* A remote shutdown call fails: neither shutdown nor shutdownAll has a rejection callback.
ShutdownFail(i) ==
  /\ i \in DOMAIN shutCalls
  /\ shutCalls' = splice(shutCalls, i)
  /\ LET c == shutCalls[i] IN
       IF c.all = 0
         THEN /\ allCalls' = allCalls
              /\ last' = Step("shutdownFail", "shutdown", "rejected", {})
         ELSE /\ allCalls' = [allCalls EXCEPT ![c.all] = settleAll(c.all, FALSE)]
              /\ last' = Step("shutdownFail", "shutdownAll", resultAll(c.all, FALSE), {})
  /\ emitted' = <<>>
  /\ UNCHANGED <<fvars, tab, signalled, models, tensorboards, disposed, isReady, isDisposed, timerOn, connected,
                 polls, startCalls, ops>>

\* shutdownAll(), up to the return of the promise: the capture, the clearing
\* with its emission, and the poll that precedes the remote calls.
shutdownAll ==
  /\ Begin
  /\ InFlight < MaxInFlight
  /\ allCalls' = [allCalls EXCEPT ![ops + 1] = [active |-> TRUE, left |-> 0, failed |-> FALSE]]
  /\ polls' = Append(polls, [origin |-> "shutdownAll", captured |-> NameList(models),
                             all |-> ops + 1])
  /\ IF Len(models) > 0
       THEN /\ models' = <<>>
            /\ emitted' = <<Emission(<<>>, <<>>, tensorboards, shutCalls)>>
       ELSE /\ models' = models
            /\ emitted' = <<>>
  /\ last' = Step("shutdownAll", "shutdownAll", "pending", {})
  /\ UNCHANGED <<fvars, tab, signalled, tensorboards, disposed, isReady, isDisposed, timerOn, connected,
                 shutCalls, startCalls>>

\* ---------------------------------------------------------------- dispose
\* Variant: dispose leaves the slots of runningChanged connected.
dispose_keepsSlots ==
  /\ Begin
  /\ IF isDisposed
       THEN UNCHANGED <<isDisposed, timerOn, connected, models>>
       ELSE /\ isDisposed' = TRUE
            /\ timerOn' = FALSE
            /\ connected' = connected
            /\ models' = <<>>
  /\ emitted' = <<>>
  /\ last' = Step("dispose", "dispose", "", {})
  /\ UNCHANGED <<fvars, tab, signalled, tensorboards, disposed, isReady, polls, shutCalls, startCalls, allCalls>>

\* dispose(): the flag, the timer, the slots of the signal, the list.
dispose ==
  /\ Begin
  /\ IF isDisposed
       THEN UNCHANGED <<isDisposed, timerOn, connected, models>>
       ELSE /\ isDisposed' = TRUE
            /\ timerOn' = FALSE
            /\ connected' = FALSE
            /\ models' = <<>>
  /\ emitted' = <<>>
  /\ last' = Step("dispose", "dispose", "", {})
  /\ UNCHANGED <<fvars, tab, signalled, tensorboards, disposed, isReady, polls, shutCalls, startCalls, allCalls>>

\* ---------------------------------------------------------------- Next
Next ==
  \/ refreshRunning
  \/ TimerTick
  \/ \E i \in DOMAIN polls, fetched \in BackendLists : RefreshOk(i, fetched)
  \/ \E i \in DOMAIN polls : RefreshFail(i)
  \/ startNew
  \/ \E k \in startCalls, m \in Models : StartOk(k, m)
  \/ \E k \in startCalls : StartFail(k)
  \/ \E t \in tensorboards : Terminated(t)
  \/ \E name \in Names : shutdown(name)
  \/ \E i \in DOMAIN shutCalls : ShutdownOk(i)
  \/ \E i \in DOMAIN shutCalls : ShutdownFail(i)
  \/ shutdownAll
  \/ dispose

Spec == Init /\ [][Next]_vars

\* ---------------------------------------------------------------- formatDir
\* Strings are sequences of characters.  The characters of a log directory:
\* the path separator, two letters, and the two characters formatDir splits on.
Chars == {"/", "u", "x", ",", ":"}

\* The arguments of formatDir: every string of at most MaxDirLen characters.
Dirs == UNION {[1..n -> Chars] : n \in 0..MaxDirLen}

\* The workspace roots the backend reports as notebook_dir.
Roots == {<<"/">>, <<"/", "u">>, <<"/", "u", "/">>}

\* The reserved result for the workspace root itself.
WorkspaceRoot == <<"<workspace_root>">>

\* String.prototype.includes
includes(s, c) == \E i \in DOMAIN s : s[i] = c

\* String.prototype.indexOf, counted from 1; 0 stands for -1.
indexOf(s, pat) ==
  IF \E i \in 1..(Len(s) - Len(pat) + 1) : SubSeq(s, i, i + Len(pat) - 1) = pat
    THEN CHOOSE i \in 1..(Len(s) - Len(pat) + 1) :
           /\ SubSeq(s, i, i + Len(pat) - 1) = pat
           /\ \A j \in 1..(i - 1) : SubSeq(s, j, j + Len(pat) - 1) # pat
    ELSE 0

\* String.prototype.split on a one-character separator.
RECURSIVE split(_, _)
split(s, c) ==
  IF ~includes(s, c)
    THEN <<s>>
    ELSE LET i == indexOf(s, <<c>>) IN
           <<SubSeq(s, 1, i - 1)>> \o split(SubSeq(s, i + 1, Len(s)), c)

\* Array.prototype.join
RECURSIVE join(_, _)
join(parts, c) ==
  IF Len(parts) = 0 THEN <<>>
  ELSE IF Len(parts) = 1 THEN parts[1]
  ELSE parts[1] \o <<c>> \o join(Tail(parts), c)

\* dir.replace(pat, ''): the first occurrence of pat is removed.
replace(s, pat) ==
  LET i == indexOf(s, pat) IN
    IF i = 0 THEN s ELSE SubSeq(s, 1, i - 1) \o SubSeq(s, i + Len(pat), Len(s))

\* replace(/^\//, ''): one leading separator is removed.
replaceLeadingSlash(s) == IF Len(s) > 0 /\ s[1] = "/" THEN Tail(s) ELSE s

\* this._statusConfig?.notebook_dir; the empty string stands for undefined, being as falsy.
pageRoot == IF statusConfig.fetch = "ok" THEN statusConfig.notebook_dir ELSE <<>>

\* Variant: the root is looked for anywhere in the directory.
startsWithRoot_anywhere(dir) == pageRoot # <<>> /\ indexOf(dir, pageRoot) # 0

\* pageRoot && dir.indexOf(pageRoot) === 0
startsWithRoot(dir) == pageRoot # <<>> /\ indexOf(dir, pageRoot) = 1

\* The single-directory branch of formatDir.
formatRelative(dir) ==
  LET replaced == replace(dir, pageRoot)
      replaceResult == IF replaced = <<>> THEN <<"/">> ELSE replaced
      formatted1 == replaceLeadingSlash(replaceResult)
  IN IF formatted1 = <<>> THEN WorkspaceRoot ELSE formatted1

\* formatDir(dir)
RECURSIVE formatDir(_)
formatDir(dir) ==
  IF includes(dir, ",")
    THEN LET dirs == split(dir, ",") IN
           join([k \in DOMAIN dirs |->
                   IF includes(dirs[k], ":")
                     THEN split(dirs[k], ":")[1] \o <<":">> \o formatDir(split(dirs[k], ":")[2])
                     ELSE formatDir(dirs[k])],
                ",")
  ELSE IF startsWithRoot(dir) THEN formatRelative(dir)
  ELSE dir

\* The static configuration fetch of the constructor is answered.
getStaticConfigOk(root) ==
  /\ statusConfig.fetch = "pending"
  /\ statusConfig' = [fetch |-> "ok", notebook_dir |-> root]
  /\ UNCHANGED <<mvars, formatted, tab>>

\* The static configuration fetch fails: _statusConfig stays null.
getStaticConfigFail ==
  /\ statusConfig.fetch = "pending"
  /\ statusConfig' = [fetch |-> "failed", notebook_dir |-> <<>>]
  /\ UNCHANGED <<mvars, formatted, tab>>

\* The consumer calls formatDir on its directory.
callFormatDir ==
  /\ ~formatted.called
  /\ formatted' = [called |-> TRUE, dir |-> formatted.dir, result |-> formatDir(formatted.dir)]
  /\ UNCHANGED <<mvars, statusConfig, tab>>

\* The constructed manager and a consumer about to format some directory.
InitFormat ==
  /\ InitRegistry
  /\ formatted \in [called : {FALSE}, dir : Dirs, result : {<<>>}]
  /\ tab = TabInit(NoName)

NextFormat ==
  \/ \E root \in Roots : getStaticConfigOk(root)
  \/ getStaticConfigFail
  \/ callFormatDir

\* The manager as far as formatDir is concerned: the configuration fetch and
\* one call of formatDir on any directory, before or after the fetch settles.
SpecFormat == InitFormat /\ [][NextFormat]_vars

\* ---------------------------------------------------------------- display layer
\* The reload intervals a user types or a model carries.
Intervals == {NaN, Num(-1), Num(0), Num(30)}

\* Number.isNaN(x)
isNaN(x) == x.nan

\* x < 0, which is false of NaN
lessThanZero(x) == ~x.nan /\ x.value < 0

\* What running() of the manager yields when a refresh resolves.
RunningLists == {NameList(l) : l \in BackendLists}

RangeOf(list) == {list[i] : i \in DOMAIN list}

\* The state and refs of the component.
DisplayState(t) ==
  <<t.ready, t.createPending, t.reloadPending, t.showNewRow, t.showListStatus,
    t.currentTensorBoard, t.currentTensorBoardRef, t.runningTensorBoards, t.notActiveError>>

\* reloadPending || createPending
currentLoading(t) == t.reloadPending \/ t.createPending

\* The buttons are rendered once ready and disabled while loading; closing the
\* widget unmounts the component.
TabClick == ~tab.closed /\ tab.ready /\ ~currentLoading(tab) /\ tab.ops < MaxTabOps

\* Variant: only a pending create is looked at.
refreshSkips_createOnly(t) == t.createPending

\* The early return of the component's refreshRunning.
refreshSkips(t) == t.createPending \/ t.reloadPending

\* refreshRunning() of the component in state t: the pending calls afterwards.
refreshCalls(t) ==
  IF refreshSkips(t) THEN t.calls
  ELSE Append(t.calls, TabCall("refreshRunning", "refresh", NoName, Num(0)))

\* The interval timer of the component fires.
tabTimerTick ==
  /\ ~tab.closed
  /\ tab.ops < MaxTabOps
  /\ refreshSkips(tab) \/ Len(tab.calls) < MaxTabCalls
  /\ tab' = [tab EXCEPT !.calls = refreshCalls(tab), !.ops = @ + 1,
                        !.last = IF refreshSkips(tab) THEN "timerSkipped" ELSE "timerRefresh"]
  /\ UNCHANGED <<mvars, fvars>>

\* The refresh button.
tabRefreshClick ==
  /\ TabClick
  /\ Len(tab.calls) < MaxTabCalls
  /\ tab' = [tab EXCEPT !.calls = refreshCalls(tab), !.ops = @ + 1, !.last = "refreshClick"]
  /\ UNCHANGED <<mvars, fvars>>

\* The callback of the component's refreshRunning: the manager's promise resolved.
tabRefreshResolved(i, modelList) ==
  /\ i \in DOMAIN tab.calls
  /\ tab.calls[i].fn = "refreshRunning"
  /\ LET t1 == [tab EXCEPT !.calls = splice(tab.calls, i),
                           !.runningTensorBoards = modelList,
                           !.last = "refreshResolved"]
         found == /\ tab.createdModelName # NoName
                  /\ tab.createdModelName \in RangeOf(modelList)
     IN IF tab.ready
          THEN tab' = [t1 EXCEPT !.notActiveError =
                         @ \/ (/\ tab.currentTensorBoardRef # NoName
                               /\ tab.currentTensorBoardRef \notin RangeOf(modelList))]
          ELSE tab' = [t1 EXCEPT !.ready = TRUE,
                                 !.currentTensorBoard = IF found THEN tab.createdModelName ELSE @,
                                 !.currentTensorBoardRef = IF found THEN tab.createdModelName ELSE @,
                                 !.showListStatus = found,
                                 !.showNewRow = IF found THEN @ ELSE TRUE]
  /\ UNCHANGED <<mvars, fvars>>

\* The manager's refreshRunning promise rejected: the component has no handler for it.
tabRefreshRejected(i) ==
  /\ i \in DOMAIN tab.calls
  /\ tab.calls[i].fn = "refreshRunning"
  /\ tab' = [tab EXCEPT !.calls = splice(tab.calls, i), !.last = "refreshRejected"]
  /\ UNCHANGED <<mvars, fvars>>

\* Variant: NaN passes the parameter check.
paramCheckFails_negativeOnly(reloadInterval) == lessThanZero(reloadInterval)

\* Number.isNaN(reloadInterval) || reloadInterval < 0
paramCheckFails(reloadInterval) == isNaN(reloadInterval) \/ lessThanZero(reloadInterval)

\* startTensorBoard of the component, from the Create button.
startTensorBoard(reloadInterval) ==
  /\ TabClick
  /\ IF paramCheckFails(reloadInterval)
       THEN tab' = [tab EXCEPT !.ops = @ + 1, !.last = "paramCheckFailed"]
       ELSE /\ Len(tab.calls) < MaxTabCalls
            /\ tab' = [tab EXCEPT !.createPending = TRUE,
                                  !.calls = Append(@, TabCall("startNew", "create",
                                                              tab.currentTensorBoard, reloadInterval)),
                                  !.ops = @ + 1, !.last = "createIssued"]
  /\ UNCHANGED <<mvars, fvars>>

\* The create resolved with a tensorboard of that name.
createResolved(i, name) ==
  /\ i \in DOMAIN tab.calls
  /\ tab.calls[i].fn = "startNew" /\ tab.calls[i].for = "create"
  /\ LET t1 == [tab EXCEPT !.calls = splice(tab.calls, i),
                           !.currentTensorBoard = name,
                           !.currentTensorBoardRef = name,
                           !.createPending = FALSE]
     IN tab' = [t1 EXCEPT !.calls = refreshCalls(t1),
                          !.showListStatus = TRUE, !.showNewRow = FALSE,
                          !.last = "createResolved"]
  /\ UNCHANGED <<mvars, fvars>>

\* The create rejected.
createRejected(i) ==
  /\ i \in DOMAIN tab.calls
  /\ tab.calls[i].fn = "startNew" /\ tab.calls[i].for = "create"
  /\ tab' = [tab EXCEPT !.calls = splice(tab.calls, i), !.createPending = FALSE,
                        !.last = "createRejected"]
  /\ UNCHANGED <<mvars, fvars>>

\* reloadTensorBoard: shutdown, then start again with the interval of the model.
reloadTensorBoard(reloadInterval) ==
  /\ TabClick
  /\ tab.currentTensorBoard # NoName
  /\ Len(tab.calls) < MaxTabCalls
  /\ tab' = [tab EXCEPT !.reloadPending = TRUE,
                        !.currentTensorBoard = NoName,
                        !.currentTensorBoardRef = NoName,
                        !.calls = Append(@, TabCall("shutdown", "reload",
                                                    tab.currentTensorBoard, reloadInterval)),
                        !.ops = @ + 1, !.last = "reloadIssued"]
  /\ UNCHANGED <<mvars, fvars>>

\* The shutdown of a reload resolved: the start is issued.
reloadShutdownResolved(i) ==
  /\ i \in DOMAIN tab.calls
  /\ tab.calls[i].fn = "shutdown" /\ tab.calls[i].for = "reload"
  /\ tab' = [tab EXCEPT !.calls = Append(splice(tab.calls, i),
                                         TabCall("startNew", "reload", tab.calls[i].name,
                                                 tab.calls[i].given)),
                        !.last = "reloadShutdownResolved"]
  /\ UNCHANGED <<mvars, fvars>>

\* The start of a reload resolved.
reloadStartResolved(i) ==
  /\ i \in DOMAIN tab.calls
  /\ tab.calls[i].fn = "startNew" /\ tab.calls[i].for = "reload"
  /\ LET t1 == [tab EXCEPT !.calls = splice(tab.calls, i)]
     IN tab' = [t1 EXCEPT !.calls = refreshCalls(t1),
                          !.reloadPending = FALSE,
                          !.currentTensorBoard = tab.calls[i].name,
                          !.currentTensorBoardRef = tab.calls[i].name,
                          !.last = "reloadResolved"]
  /\ UNCHANGED <<mvars, fvars>>

\* errorCallback of a reload: either of its calls rejected; the widget is closed.
reloadRejected(i) ==
  /\ i \in DOMAIN tab.calls
  /\ tab.calls[i].for = "reload"
  /\ tab' = [tab EXCEPT !.calls = splice(tab.calls, i), !.closed = TRUE,
                        !.last = "reloadError"]
  /\ UNCHANGED <<mvars, fvars>>

\* destroyTensorBoard
destroyTensorBoard ==
  /\ TabClick
  /\ tab.currentTensorBoard # NoName
  /\ Len(tab.calls) < MaxTabCalls
  /\ tab' = [tab EXCEPT !.calls = Append(@, TabCall("shutdown", "destroy",
                                                    tab.currentTensorBoard, Num(0))),
                        !.ops = @ + 1, !.last = "destroyIssued"]
  /\ UNCHANGED <<mvars, fvars>>

\* The shutdown of a destroy settled: the widget is closed on success only.
destroySettled(i, ok) ==
  /\ i \in DOMAIN tab.calls
  /\ tab.calls[i].fn = "shutdown" /\ tab.calls[i].for = "destroy"
  /\ tab' = [tab EXCEPT !.calls = splice(tab.calls, i), !.closed = @ \/ ok,
                        !.last = IF ok THEN "destroyResolved" ELSE "destroyRejected"]
  /\ UNCHANGED <<mvars, fvars>>

\* changeModel, from the selector of the running tensorboards.
changeModel(name) ==
  /\ TabClick
  /\ name \in RangeOf(tab.runningTensorBoards)
  /\ tab.currentTensorBoard # name
  /\ tab' = [tab EXCEPT !.currentTensorBoard = name, !.ops = @ + 1, !.last = "changeModel"]
  /\ UNCHANGED <<mvars, fvars>>

\* toggleNewRow
toggleNewRow ==
  /\ TabClick
  /\ tab' = [tab EXCEPT !.showNewRow = ~@, !.ops = @ + 1, !.last = "toggleNewRow"]
  /\ UNCHANGED <<mvars, fvars>>

\* The widget as opened: from the launcher, or for a tensorboard just created.
InitDisplay ==
  /\ InitRegistry
  /\ formatted = [called |-> FALSE, dir |-> <<>>, result |-> <<>>]
  /\ tab \in {TabInit(created) : created \in Names \cup {NoName}}

NextDisplay ==
  \/ tabTimerTick
  \/ tabRefreshClick
  \/ \E i \in DOMAIN tab.calls, modelList \in RunningLists : tabRefreshResolved(i, modelList)
  \/ \E i \in DOMAIN tab.calls : tabRefreshRejected(i)
  \/ \E reloadInterval \in Intervals : startTensorBoard(reloadInterval)
  \/ \E i \in DOMAIN tab.calls, name \in Names : createResolved(i, name)
  \/ \E i \in DOMAIN tab.calls : createRejected(i)
  \/ \E reloadInterval \in Intervals : reloadTensorBoard(reloadInterval)
  \/ \E i \in DOMAIN tab.calls : reloadShutdownResolved(i)
  \/ \E i \in DOMAIN tab.calls : reloadStartResolved(i)
  \/ \E i \in DOMAIN tab.calls : reloadRejected(i)
  \/ destroyTensorBoard
  \/ \E i \in DOMAIN tab.calls, ok \in BOOLEAN : destroySettled(i, ok)
  \/ \E name \in Names : changeModel(name)
  \/ toggleNewRow

\* The component and the calls it makes on the manager, which settle in any order.
SpecDisplay == InitDisplay /\ [][NextDisplay]_vars

\* ================================================================ claims
HeldNames == {t.name : t \in tensorboards}

\* C1: a successful poll emits a change event iff the fetched list is not
\* deep-equal to the models held just before the completion; when they are
\* deep-equal nothing is emitted and models is unchanged.
C1_EventIffChanged ==
  [][\A i \in DOMAIN polls, f \in BackendLists :
       RefreshOk(i, f) =>
         /\ (emitted' # <<>>) <=> (f # models)
         /\ f # models => Len(emitted') = 1 /\ emitted'[1].payload = f
         /\ f = models => emitted' = <<>> /\ models' = models]_vars

\* A poll has completed with a non-empty list equal to models: no event.
C1_Witness ==
  /\ last.op = "refreshOk"
  /\ emitted = <<>>
  /\ Len(models) = 2

\* C2: models holds at most one entry per name, in every reachable state.
C2_UniqueNames ==
  \A i, j \in DOMAIN models : models[i].name = models[j].name => i = j

\* A start was answered with a name already listed (reuse): two handles of
\* that name are held and no entry was added.
C2_Witness ==
  /\ last.op = "startOk"
  /\ emitted = <<>>
  /\ \E t, u \in tensorboards : t.id # u.id /\ t.name = u.name
  /\ Len(models) = 1

\* No held handle has signalled its own termination.
NoneSignalled == IdsOf(tensorboards) \cap signalled = {}

\* C3 as stated: in every state between operations and at every emission,
\* each held handle has its name in models (taken where no held handle has
\* signalled termination, so that only calls of the manager have acted).
C3_HandlesInModels ==
  NoneSignalled =>
    /\ HeldNames \subseteq NamesOf(models)
    /\ \A k \in DOMAIN emitted :
         {t.name : t \in emitted[k].handles} \subseteq NamesOf(emitted[k].models)

\* C3 amended: at the change event of a reconciliation pass (a poll that found
\* a change) and in the state it leaves, each held handle has its name in
\* models; the pass drops names and their handles together.
C3_PassIsAtomic ==
  (last.op = "refreshOk" /\ emitted # <<>>) =>
    /\ {t.name : t \in emitted[1].handles} \subseteq NamesOf(emitted[1].models)
    /\ emitted[1].handles = tensorboards
    /\ HeldNames \subseteq NamesOf(models)

\* A pass dropped one handle and kept another.
C3_Witness ==
  /\ last.op = "refreshOk"
  /\ emitted # <<>>
  /\ last.dropped # {}
  /\ tensorboards # {}

\* C4 as stated: after a successful poll models is the fetched list and no
\* held handle has a name absent from it (taken where no held handle has
\* signalled termination).
C4_RefreshReconciles ==
  [][\A i \in DOMAIN polls, f \in BackendLists :
       (RefreshOk(i, f) /\ NoneSignalled) =>
         /\ models' = f
         /\ \A t \in tensorboards' : t.name \in NamesOf(f)]_vars

\* C4 amended: after a successful poll models is the fetched list; when the
\* fetched list differed from the previous models, no held handle has a name
\* absent from it and the handles dropped are disposed; when it did not
\* differ, handles is left as it was.
C4_RefreshReconcilesOnChange ==
  [][\A i \in DOMAIN polls, f \in BackendLists :
       RefreshOk(i, f) =>
         /\ models' = f
         /\ f # models =>
              /\ tensorboards' = {t \in tensorboards : t.name \in NamesOf(f)}
              /\ IdsOf(tensorboards \ tensorboards') \subseteq disposed'
         /\ f = models => tensorboards' = tensorboards /\ disposed' = disposed]_vars

\* The backend reports the empty list and the last held handle is disposed.
C4_Witness ==
  /\ last.op = "refreshOk"
  /\ last.dropped # {}
  /\ models = <<>>
  /\ tensorboards = {}

\* C5: a failed poll rejects the promise of its caller and changes neither
\* models nor handles, and emits nothing.
C5_FailedPollChangesNothing ==
  [][last'.op = "refreshFail" =>
       /\ last'.result = "rejected"
       /\ models' = models
       /\ tensorboards' = tensorboards
       /\ disposed' = disposed
       /\ emitted' = <<>>]_vars

\* A refreshRunning() call failed while a model and a handle were held.
C5_Witness ==
  /\ last.op = "refreshFail"
  /\ last.origin = "api"
  /\ models # <<>>
  /\ tensorboards # {}

\* C6: shutdown(name) of a listed name removes the entry and emits the
\* reduced list before the remote call is issued; the call is then in flight
\* and models does not contain name.
C6_OptimisticRemoval ==
  [][\A n \in Names :
       (shutdown(n) /\ n \in NamesOf(models)) =>
         /\ n \notin NamesOf(models')
         /\ Len(models') = Len(models) - 1
         /\ \A m \in Models : (\E k \in DOMAIN models' : models'[k] = m) <=>
                              (\E k \in DOMAIN models : models[k] = m /\ m.name # n)
         /\ Len(emitted') = 1
         /\ emitted'[1].payload = models'
         /\ emitted'[1].models = models'
         /\ emitted'[1].calls = shutCalls
         /\ shutCalls' = Append(shutCalls, [name |-> n, all |-> 0])]_vars

\* A listed name was shut down, another stays listed, the call is unresolved.
C6_Witness ==
  /\ last.op = "shutdown"
  /\ last.result = "pending"
  /\ Len(models) = 1
  /\ Len(emitted) = 1
  /\ \E k \in DOMAIN shutCalls : shutCalls[k].all = 0 /\ shutCalls[k].name \notin NamesOf(models)

\* C7: shutdown(name) of a name that is not listed emits nothing, issues no
\* remote call and leaves models and handles as they were.
C7_AbsentIsNoOp ==
  [][\A n \in Names :
       (shutdown(n) /\ n \notin NamesOf(models)) =>
         /\ emitted' = <<>>
         /\ shutCalls' = shutCalls
         /\ polls' = polls
         /\ startCalls' = startCalls
         /\ models' = models
         /\ tensorboards' = tensorboards
         /\ disposed' = disposed
         /\ last'.result = "resolved"]_vars

\* shutdown of an unlisted name returned while another name is listed and a
\* handle is held.
C7_Witness ==
  /\ last.op = "shutdown"
  /\ last.result = "resolved"
  /\ Len(models) = 1
  /\ tensorboards # {}

\* C8 as stated: once the remote call of shutdown(name) settles, with success
\* or failure, no handle of that name is held.
C8_HandlesGoneOnSettle ==
  [][\A i \in DOMAIN shutCalls :
       ((ShutdownOk(i) \/ ShutdownFail(i)) /\ shutCalls[i].all = 0) =>
         \A t \in tensorboards' : t.name # shutCalls[i].name]_vars

C10_SingleEvent ==
  [][\A i \in DOMAIN polls, f \in BackendLists :
       (/\ RefreshOk(i, f)
        /\ polls[i].origin = "shutdownAll"
        /\ Len(polls[i].captured) > 0
        /\ NameList(f) = polls[i].captured) =>
         emitted' = <<>> /\ models' = models]_vars

\* C11: every shutdownAll issues one remote shutdown per entry of the snapshot
\* it captured, whichever way its poll settles, and when the last of those
\* calls has settled no handle is held.
C11_OneCallEachThenNoHandles ==
  [][/\ \A i \in DOMAIN polls :
          (polls[i].origin = "shutdownAll"
             /\ (RefreshFail(i) \/ \E f \in BackendLists : RefreshOk(i, f)))
          => shutCalls' = shutCalls \o CallsFor(polls[i].captured, polls[i].all)
     /\ \A i \in DOMAIN shutCalls :
          (shutCalls[i].all # 0 /\ allCalls[shutCalls[i].all].left = 1
             /\ (ShutdownOk(i) \/ ShutdownFail(i)))
          => tensorboards' = {}]_vars

\* C12: when a start succeeds the returned handle is held; a name not yet in
\* models gets its model appended with exactly one event carrying the new
\* list; a name already in models leaves models unchanged with no event; either
\* way models then has exactly one entry of that name.
C12_StartAddsOnce ==
  [][\A k \in startCalls, m \in Models :
       StartOk(k, m) =>
         /\ [id |-> k, name |-> m.name] \in tensorboards'
         /\ m.name \notin NamesOf(models) =>
              /\ models' = Append(models, m)
              /\ Len(emitted') = 1
              /\ emitted'[1].payload = Append(models, m)
         /\ m.name \in NamesOf(models) => models' = models /\ emitted' = <<>>
         /\ Cardinality({i \in DOMAIN models' : models'[i].name = m.name}) = 1]_vars

\* A start was answered with a name not listed: its model went to the end of a
\* non-empty list, with one event.
C12_Witness ==
  /\ last.op = "startOk"
  /\ Len(emitted) = 1
  /\ Len(models) = 2
  /\ \E t \in tensorboards : t.name = models[2].name

\* C13: when the remote create fails the promise startNew returned is
\* rejected, models and handles are left as they were and no event is emitted.
C13_StartFailurePropagates ==
  [][\A k \in startCalls :
       StartFail(k) =>
         /\ last'.result = "rejected"
         /\ models' = models
         /\ tensorboards' = tensorboards
         /\ disposed' = disposed
         /\ emitted' = <<>>]_vars

\* A start failed while the registry already listed and held a tensorboard.
C13_Witness ==
  /\ last.op = "startFail"
  /\ last.result = "rejected"
  /\ models # <<>>
  /\ tensorboards # {}

\* C14: at every emission of the change event, whichever operation makes it,
\* models has already been mutated: what a subscriber reads from models at the
\* emission is deep-equal to the payload, and is the list the step leaves.
C14_MutatedBeforeEmit ==
  \A k \in DOMAIN emitted :
    /\ deepEqual(emitted[k].payload, emitted[k].models)
    /\ emitted[k].models = models

\* shutdown removed one of two entries and emitted the remaining one.
C14_Witness ==
  /\ last.op = "shutdown"
  /\ Len(emitted) = 1
  /\ Len(emitted[1].payload) = 1
  /\ emitted[1].models = emitted[1].payload

\* C15: once the manager is disposed the timer issues no poll, and no event
\* is delivered to a subscriber connected before the disposal, also when a call
\* that was in flight at the disposal completes; dispose itself issues no
\* remote shutdown call and no poll.
C15_DisposedIsSilent ==
  [][/\ isDisposed =>
          /\ \A k \in DOMAIN emitted' : ~emitted'[k].delivered
          /\ last'.op \notin {"timerPoll", "timerSkip"}
          /\ Len(polls') > Len(polls) => polls'[Len(polls')].origin # "timer"
     /\ dispose => shutCalls' = shutCalls /\ polls' = polls /\ startCalls' = startCalls]_vars

\* A poll in flight at the disposal completed afterwards with a change: its
\* event reached no subscriber.
C15_Witness ==
  /\ isDisposed
  /\ last.op = "refreshOk"
  /\ Len(emitted) = 1
  /\ ~emitted[1].delivered
  /\ ~timerOn

\* C16: in every state after dispose(), models is empty, whatever calls were
\* in flight when it was called.
C16_EmptyAfterDispose == isDisposed => models = <<>>

\* C17: two polls in flight at the same time and answered with the same
\* backend list both complete; after the second completion models is that
\* list, and the two completions together emit at most one event: the second
\* finds nothing changed.  (The state before the second completion is the one
\* the first completion left, so models there is the list the first fetched.)
C17_OverlapIdempotent ==
  [][\A i \in DOMAIN polls, f \in BackendLists :
       (last.op = "refreshOk" /\ models = f /\ RefreshOk(i, f)) =>
         /\ models' = f
         /\ emitted' = <<>>
         /\ Len(emitted) + Len(emitted') <= 1
         /\ tensorboards' = tensorboards
         /\ last'.result # "rejected"]_vars

\* The constructor's poll and one poll issued while it was in flight have both
\* completed, the later completion with the two-entry list the earlier one had
\* installed: no second event.
C17_Witness ==
  /\ last.op = "refreshOk"
  /\ last.origin = "ctor"
  /\ ops = 1
  /\ polls = <<>>
  /\ emitted = <<>>
  /\ Len(models) = 2
  /\ tensorboards = {} /\ disposed = {} /\ startCalls = {}

\* C18: the ready flag is false at construction and stays false until a poll
\* succeeds: only a successful poll completion changes it; every successful
\* poll completion leaves it true, whatever failed before; once true it is
\* never false again.
C18_ReadyLatch ==
  /\ isReady = FALSE
  /\ [][/\ isReady' # isReady => last'.op = "refreshOk"
        /\ (\E i \in DOMAIN polls, f \in BackendLists : RefreshOk(i, f)) => isReady'
        /\ isReady => isReady']_vars

\* A poll failed after an earlier one had succeeded: the flag is still true.
C18_Witness ==
  /\ last.op = "refreshFail"
  /\ isReady

\* C19: with the workspace root R known, formatDir of a directory without a
\* comma is the directory itself when it does not start with R; otherwise it
\* is the directory without the prefix R and without one leading path
\* separator, or the reserved "<workspace_root>" when nothing is left; the
\* call changes no state of the registry.
C19_SingleDirectory ==
  [][(callFormatDir /\ statusConfig.fetch = "ok" /\ ~includes(formatted.dir, ",")) =>
       LET dir == formatted.dir
           R == statusConfig.notebook_dir
           starts == Len(R) <= Len(dir) /\ \A i \in 1..Len(R) : dir[i] = R[i]
           rest == [i \in 1..(Len(dir) - Len(R)) |-> dir[Len(R) + i]]
           remainder == IF rest # <<>> /\ rest[1] = "/" THEN Tail(rest) ELSE rest
       IN /\ formatted'.result = IF ~starts THEN dir
                                 ELSE IF remainder = <<>> THEN WorkspaceRoot
                                 ELSE remainder
          /\ UNCHANGED mvars
          /\ statusConfig' = statusConfig]_vars

\* With root "/u", formatDir("/u/x") gave "x".
C19_Witness ==
  /\ formatted.called
  /\ statusConfig.fetch = "ok"
  /\ statusConfig.notebook_dir = <<"/", "u">>
  /\ formatted.dir = <<"/", "u", "/", "x">>
  /\ formatted.result = <<"x">>

\* C20: formatDir of a comma-joined input is the comma-join, in order, of its
\* segments each formatted on its own: a segment without a label gives its
\* single-directory formatting, a segment label:path gives the label, ':' and
\* the formatting of the whole path portion (all that follows the first colon).
C20_CommaJoined ==
  [][(callFormatDir /\ includes(formatted.dir, ",")) =>
       LET segments == split(formatted.dir, ",")
           label(seg) == SubSeq(seg, 1, indexOf(seg, <<":">>) - 1)
           path(seg) == SubSeq(seg, indexOf(seg, <<":">>) + 1, Len(seg))
           each(seg) == IF includes(seg, ":")
                          THEN label(seg) \o <<":">> \o formatDir(path(seg))
                          ELSE formatDir(seg)
       IN formatted'.result = join([k \in DOMAIN segments |-> each(segments[k])], ",")]_vars

\* C21: while the static configuration is unset (its fetch pending or failed)
\* formatDir is the identity on every input, comma-joined and labelled ones
\* included.
C21_IdentityWhenUnset ==
  [][(callFormatDir /\ statusConfig.fetch # "ok") => formatted'.result = formatted.dir]_vars

\* C22: a refresh attempt of the component made while a create or a reload is
\* pending (the timer, the refresh button, the refresh a reload makes when its
\* start resolves) issues no refreshRunning call on the manager and changes no
\* state of the component.
C22_NoRefreshWhilePending ==
  [][/\ ((tabTimerTick \/ tabRefreshClick) /\ (tab.createPending \/ tab.reloadPending)) =>
          /\ tab'.calls = tab.calls
          /\ DisplayState(tab') = DisplayState(tab)
     /\ \A i \in DOMAIN tab.calls :
          reloadStartResolved(i) => tab'.calls = splice(tab.calls, i)]_vars

\* The timer fired while a create was pending and nothing else was in flight.
C22_Witness ==
  /\ tab.last = "timerSkipped"
  /\ tab.createPending
  /\ Len(tab.calls) = 1
  /\ tab.calls[1].fn = "startNew"

\* C23: a create with a negative or NaN reload interval is turned down by the
\* component before any call: no start is made on the manager and the
\* create-pending flag stays false; the manager's start checks nothing and
\* hands the interval it was given on to the backend.
C23_BadIntervalRejected ==
  [][/\ \A x \in Intervals :
          (startTensorBoard(x) /\ (x.nan \/ x.value < 0)) =>
            /\ tab'.calls = tab.calls
            /\ ~tab'.createPending
            /\ DisplayState(tab') = DisplayState(tab)
     /\ \A i \in DOMAIN tab'.calls :
          tab'.calls[i].fn = "startNew" =>
            tab'.calls[i].request.reload_interval = tab'.calls[i].given]_vars

\* The parameter check failed: nothing is pending.
C23_Witness ==
  /\ tab.last = "paramCheckFailed"
  /\ ~tab.createPending
  /\ tab.calls = <<>>

\* C24: a name shutdown(name) has just removed from models is not put back by
\* a poll that was already in flight when shutdown was called: while the remote
\* shutdown is unresolved, the completion of such a poll leaves the name absent.
\* (Right after the shutdown step every poll in flight was issued before it,
\* and its remote call is the last one issued.)
C24_StalePollKeepsRemoval ==
  [][\A i \in DOMAIN polls, f \in BackendLists :
       (last.op = "shutdown" /\ last.result = "pending" /\ RefreshOk(i, f)) =>
         shutCalls[Len(shutCalls)].name \notin NamesOf(models')]_vars

\* C25: of overlapping polls the most recently issued one decides models: a
\* response to an earlier-issued poll does not overwrite the result of a
\* later-issued one.  Taken for the constructor's poll, which is issued before
\* every other: when it completes right after a poll of refreshRunning or of
\* the timer did, with no start or shutdown in the run, models stays what that
\* later poll fetched.
C25_LatestIssuedWins ==
  [][\A i \in DOMAIN polls, f \in BackendLists :
       (/\ last.op = "refreshOk" /\ last.origin \in {"api", "timer"}
        /\ polls[i].origin = "ctor"
        /\ tensorboards = {} /\ disposed = {} /\ startCalls = {} /\ shutCalls = <<>>
        /\ \A a \in DOMAIN allCalls : allCalls[a] = IdleCall
        /\ ~isDisposed
        /\ RefreshOk(i, f)) =>
         models' = models]_vars

\* C26: a handle leaves handles, disposed, only when its own name was the
\* target of the shutdown whose remote call succeeded, or was in the snapshot
\* of the shutdownAll whose remote call succeeded, or was absent from the list
\* a poll fetched; a handle started while a shutdownAll is in flight, under a
\* name outside its snapshot, stays held.  (For shutdownAll the snapshot is
\* read off its remote calls while none of them has settled yet.)
C26_OnlyOwnNameDisposed ==
  [][/\ \A i \in DOMAIN shutCalls :
          ShutdownOk(i) =>
            LET c == shutCalls[i]
                mine == {j \in DOMAIN shutCalls : shutCalls[j].all = c.all}
            IN /\ c.all = 0 => \A t \in tensorboards \ tensorboards' : t.name = c.name
               /\ (c.all # 0 /\ allCalls[c.all].left = Cardinality(mine)) =>
                    \A t \in tensorboards \ tensorboards' :
                      t.name \in {shutCalls[j].name : j \in mine}
     /\ \A i \in DOMAIN polls, f \in BackendLists :
          RefreshOk(i, f) => \A t \in tensorboards \ tensorboards' : t.name \notin NamesOf(f)
     /\ (tensorboards \ tensorboards' # {}) =>
          \/ \E i \in DOMAIN shutCalls : ShutdownOk(i)
          \/ \E i \in DOMAIN polls, f \in BackendLists : RefreshOk(i, f)
     /\ IdsOf(tensorboards \ tensorboards') = disposed' \ disposed]_vars

====
